---- MODULE Spec2Model ----
(***************************************************************************)
(* Model of the NFT gift server.                                           *)
(*   src/index.js          transaction scanner: checkRecentTransactions,   *)
(*                         checkTransaction, the dedup cache, the daily    *)
(*                         cron clear, getNFTPrice                         *)
(*   src/unnamed/part_000  inventory endpoints: add (admin), stake/unstake *)
(*                                                                         *)
(* JavaScript runs one callback at a time: an action below is one segment  *)
(* of an async function, from the completion of the call it awaited to the *)
(* next await that waits for the network (or to its return).               *)
(***************************************************************************)
EXTENDS Integers, Sequences, FiniteSets, TLC

VARIABLES
    \* ---- external database and configuration (src/index.js) ----
    users,           \* users/<id>/wallet/address of every registered user
    botToken,        \* process.env.TELEGRAM_BOT_TOKEN is set
    records,         \* the records under users/<id>/nfts written by the scanner
    notifications,   \* Telegram messages accepted by the bot API, per <<chat, tx>>
    \* ---- scanner state (src/index.js) ----
    processedTransactions,
    pc,              \* per scan: the call it is awaiting
    txs,             \* per scan: response.data.result of getTransactions
    ti,              \* per scan: index of the transaction in checkTransaction
    mi,              \* per scan: index of the message of the for loop
    sender,          \* per scan: result of findUserByWallet
    nftInfo,         \* per scan: result of getNFTInfo
    added,           \* per scan: result of addNFTToInventory, nftId of what it stored
    resp,            \* status of the last POST /api/check response
    scans,           \* number of scans started
    cleared,         \* history: the cron job has cleared the cache
    skipped,         \* history: hashes some scan returned early on (line 210)
    \* ---- getNFTPrice as a function of the two replies (src/index.js) ----
    gg, tn, price, ppc,
    \* ---- inventory endpoints (src/unnamed/part_000) ----
    adminKey,        \* process.env.ADMIN_KEY
    nfts,            \* users/<userId>/nfts/<nftId> -> stored object
    clock,           \* Date.now()
    status,          \* status of the last response
    lastReq,         \* the last request handled
    \* ---- GET /api/collections/prices (src/unnamed/part_000) ----
    fpc,             \* the request: not made, awaiting Tonnel, answered
    ci,              \* index of the collection of the for loop
    prices,          \* the object the handler builds and sends
    lastGifts,       \* history: the last list of gifts Tonnel returned, and for which collection
    fstatus          \* status of the response

varsScan == <<users, botToken, records, notifications, processedTransactions,
              pc, txs, ti, mi, sender, nftInfo, added, resp, scans, cleared, skipped>>
varsPrice == <<gg, tn, price, ppc>>
varsInv == <<adminKey, nfts, clock, status, lastReq>>
varsFloor == <<fpc, ci, prices, lastGifts, fstatus>>
vars == <<varsScan, varsPrice, varsInv, varsFloor>>

\* ---------------------------------------------------------------------------
\* Bounds of the model
\* ---------------------------------------------------------------------------
MaxTx == 2          \* transactions in one getTransactions reply (the code asks for 20)
MaxScans == 2       \* scans started in one behaviour

\* ---------------------------------------------------------------------------
\* JavaScript values
\* ---------------------------------------------------------------------------
Undefined == "undefined"
Null == "null"

\* ---------------------------------------------------------------------------
\* Strings as sequences of characters, String.prototype.includes
\* ---------------------------------------------------------------------------
Opcode == <<"5", "f", "c", "c", "3", "d", "1", "4">>

Includes(s, sub) ==
    \E i \in 0..(Len(s) - Len(sub)) : SubSeq(s, i + 1, i + Len(sub)) = sub

\* a message body: a string, a missing body, or a JSON value that is no string
Str(chars) == [kind |-> "string", chars |-> chars]
NoBody == [kind |-> "undefined", chars |-> <<>>]
ObjBody == [kind |-> "object", chars |-> <<>>]

\* ---------------------------------------------------------------------------
\* Addresses, users and the transactions TON Center can return
\* ---------------------------------------------------------------------------
RECEIVER_ADDRESS == "R"
OtherAddress == "X"
Users == {"u1", "u2"}
\* the order of Object.keys on the snapshot of the users node
UserOrder == <<"u1", "u2">>
Procs == {"timer", "manual"}

Msg(src, dst, body) == [source |-> src, destination |-> dst, body |-> body]

\* the chain of the receiver address; a transaction never changes once it has a hash
Chain == <<
    \* right destination without the opcode (one character short), the opcode
    \* sent elsewhere, and no body
    [hash |-> "h1", has_out |-> TRUE,
     out_msgs |-> << Msg("w1", RECEIVER_ADDRESS, Str(SubSeq(Opcode, 1, 7) \o <<"0">>)),
                     Msg("w1", OtherAddress, Str(Opcode)),
                     Msg("w2", RECEIVER_ADDRESS, NoBody) >>],
    \* two NFT transfers in one transaction, the opcode inside a longer body
    [hash |-> "h2", has_out |-> TRUE,
     out_msgs |-> << Msg("w1", RECEIVER_ADDRESS, Str(<<"0">> \o Opcode \o <<"a">>)),
                     Msg("w1", RECEIVER_ADDRESS, Str(Opcode)) >>],
    \* one transfer from a wallet nobody registered, then a body that is no string
    [hash |-> "h3", has_out |-> TRUE,
     out_msgs |-> << Msg("w2", RECEIVER_ADDRESS, Str(Opcode)),
                     Msg("w2", RECEIVER_ADDRESS, ObjBody) >>],
    \* no out_msgs at all
    [hash |-> "h4", has_out |-> FALSE, out_msgs |-> <<>>],
    \* a body that is no string before the transfer: the call ends in the catch
    [hash |-> "h5", has_out |-> TRUE,
     out_msgs |-> << Msg("w1", OtherAddress, ObjBody),
                     Msg("w1", RECEIVER_ADDRESS, ObjBody),
                     Msg("w1", RECEIVER_ADDRESS, Str(Opcode)) >>]
>>

Hashes == {Chain[i].hash : i \in 1..Len(Chain)}

TxOf(h) == CHOOSE t \in {Chain[i] : i \in 1..Len(Chain)} : t.hash = h

\* the replies of getTransactions: up to MaxTx consecutive transactions
FetchLists ==
    {<<>>} \cup
    {SubSeq(Chain, w[1], w[2]) :
        w \in {v \in (1..Len(Chain)) \X (1..Len(Chain)) :
                   v[1] <= v[2] /\ v[2] - v[1] < MaxTx}}

\* ---------------------------------------------------------------------------
\* getNFTPrice (src/index.js:125)
\* ---------------------------------------------------------------------------
\* a number, or undefined
Num(n) == [def |-> TRUE, n |-> n]
Undef == [def |-> FALSE, n |-> 0]

\* replies: the request throws, there is no payload, or a payload whose
\* price field may be missing
Reply(kind, p) == [kind |-> kind, price |-> p]
Truthy(v) == v.def /\ v.n # 0

getNFTPrice(g, t) ==
    IF g.kind = "throw" THEN Num(0)
    ELSE IF g.kind = "data" /\ Truthy(g.price) THEN g.price
    ELSE IF t.kind = "throw" THEN Num(0)
    ELSE IF t.kind = "data" THEN t.price
    ELSE Num(0)

\* ---------------------------------------------------------------------------
\* Scanner: pure parts of checkTransaction (src/index.js:207)
\* ---------------------------------------------------------------------------
NoUser == "nobody"
NoInfo == [ok |-> FALSE, id |-> "", priceTON |-> Num(0)]

\* findUserByWallet: the first key of the users whose wallet/address equals the
\* argument; null when there is none or when the query throws
\* variant: the query without its equalTo filter
findUserByWalletNoFilter(us, walletAddress, queryOk) ==
    IF ~queryOk THEN NoUser ELSE UserOrder[1]

findUserByWallet(us, walletAddress, queryOk) ==
    LET found == {i \in 1..Len(UserOrder) : us[UserOrder[i]] = walletAddress}
    IN  IF ~queryOk \/ found = {} THEN NoUser
        ELSE UserOrder[CHOOSE i \in found : \A j \in found : i <= j]

\* variant: the test without the destination check of line 220
IsTransferAnyDestination(msg) ==
    IF msg.body.kind = "undefined" THEN "no"
    ELSE IF msg.body.kind = "object" THEN "throw"
    ELSE IF Len(msg.body.chars) > 0 /\ Includes(msg.body.chars, Opcode) THEN "yes"
    ELSE "no"

\* the test of lines 220-222 on one message: "yes", "no", or "throw" when
\* msg.body is truthy and has no includes method
IsTransfer(msg) ==
    IF msg.destination # RECEIVER_ADDRESS THEN "no"
    ELSE IF msg.body.kind = "undefined" THEN "no"
    ELSE IF msg.body.kind = "object" THEN "throw"
    ELSE IF Len(msg.body.chars) > 0 /\ Includes(msg.body.chars, Opcode) THEN "yes"
    ELSE "no"

\* the for loop of line 218 from message m on, up to the first await: the index
\* of the next message that is a transfer, 0 when the loop ends or the catch
\* of line 249 ends the call
RECURSIVE NextMatch(_, _)
NextMatch(msgs, m) ==
    IF m > Len(msgs) THEN 0
    ELSE LET r == IsTransfer(msgs[m])
         IN  IF r = "yes" THEN m
             ELSE IF r = "throw" THEN 0
             ELSE NextMatch(msgs, m + 1)

\* variant: checkTransaction without the check of line 210
FirstMatchNoDedup(tx, processed) ==
    IF ~tx.has_out \/ Len(tx.out_msgs) = 0 THEN 0
    ELSE NextMatch(tx.out_msgs, 1)

\* checkTransaction up to its first await: 0 when it returns without awaiting
FirstMatch(tx, processed) ==
    IF tx.hash \in processed THEN 0
    ELSE IF ~tx.has_out \/ Len(tx.out_msgs) = 0 THEN 0
    ELSE NextMatch(tx.out_msgs, 1)

\* the loop of checkRecentTransactions (line 303) from transaction t on, up to
\* the first checkTransaction that awaits: where the scan stops, ti = 0 when
\* the loop ends
RECURSIVE NextTx(_, _, _)
NextTx(list, t, processed) ==
    IF t > Len(list) THEN [ti |-> 0, mi |-> 0]
    ELSE LET m == FirstMatch(list[t], processed)
         IN  IF m > 0 THEN [ti |-> t, mi |-> m]
             ELSE NextTx(list, t + 1, processed)

\* after message m of transaction t has been handled: the rest of the for loop
\* of checkTransaction, then the rest of the loop of checkRecentTransactions
Continue(list, t, m, processed) ==
    LET m2 == NextMatch(list[t].out_msgs, m + 1)
    IN  IF m2 > 0 THEN [ti |-> t, mi |-> m2]
        ELSE NextTx(list, t + 1, processed)

\* history: the hashes of list[from..to] on which checkTransaction returned at
\* line 211
SkippedIn(list, from, to, processed) ==
    {list[i].hash : i \in {j \in from..to : list[j].hash \in processed}}

LastVisited(list, pos) == IF pos.ti = 0 THEN Len(list) ELSE pos.ti

CurTx(p) == txs[p][ti[p]]
CurMsg(p) == CurTx(p).out_msgs[mi[p]]

NotAdded == [ok |-> FALSE, nftId |-> 0]

\* ---------------------------------------------------------------------------
\* Scanner: actions (src/index.js)
\* ---------------------------------------------------------------------------
\* two users registered the same wallet w1, nobody registered w2
UserConfigs == { [u \in Users |-> "w1"] }

\* outside the specification of the floor prices: no request
InitFloor ==
    /\ fpc = "off"
    /\ ci = 0
    /\ prices = [c \in {} |-> <<>>]
    /\ lastGifts = [collection |-> "", gifts |-> <<>>]
    /\ fstatus = "none"

\* outside the specification of getNFTPrice: no call
InitPrice ==
    /\ gg = Reply("empty", Undef)
    /\ tn = Reply("empty", Undef)
    /\ price = Undef
    /\ ppc = "off"

\* outside the specification of the inventory endpoints: no request
NoReq == [op |-> "none", key |-> Undefined]

InitInv ==
    /\ adminKey = Undefined
    /\ nfts = [q \in {} |-> <<>>]
    /\ clock = 1
    /\ status = "none"
    /\ lastReq = NoReq

\* nothing stored, nothing sent, no scan running, the cache empty
ScanIdle ==
    /\ records = {}
    /\ notifications = [k \in Users \X Hashes |-> 0]
    /\ processedTransactions = {}
    /\ pc = [p \in Procs |-> "idle"]
    /\ txs = [p \in Procs |-> <<>>]
    /\ ti = [p \in Procs |-> 0]
    /\ mi = [p \in Procs |-> 0]
    /\ sender = [p \in Procs |-> NoUser]
    /\ nftInfo = [p \in Procs |-> NoInfo]
    /\ added = [p \in Procs |-> NotAdded]
    /\ resp = "none"
    /\ scans = 0
    /\ cleared = FALSE
    /\ skipped = {}

InitScan ==
    /\ users \in UserConfigs
    /\ botToken \in BOOLEAN
    /\ ScanIdle

Init == InitScan /\ InitPrice /\ InitInv /\ InitFloor

\* the scan of p goes on from position pos of list: it awaits findUserByWallet
\* for the message at pos, or checkRecentTransactions returns (and POST
\* /api/check answers 200)
MoveTo(p, list, pos) ==
    /\ pc' = [pc EXCEPT ![p] = IF pos.ti = 0 THEN "idle" ELSE "lookup"]
    /\ txs' = [txs EXCEPT ![p] = IF pos.ti = 0 THEN <<>> ELSE list]
    /\ ti' = [ti EXCEPT ![p] = pos.ti]
    /\ mi' = [mi EXCEPT ![p] = pos.mi]
    /\ sender' = [sender EXCEPT ![p] = NoUser]
    /\ nftInfo' = [nftInfo EXCEPT ![p] = NoInfo]
    /\ added' = [added EXCEPT ![p] = NotAdded]
    /\ resp' = IF pos.ti = 0 /\ p = "manual" THEN "200" ELSE resp

\* setInterval fires (line 365) or POST /api/check arrives (line 337):
\* checkRecentTransactions sends getTransactions and awaits it
StartScan(p) ==
    /\ pc[p] = "idle"
    /\ scans < MaxScans
    /\ scans' = scans + 1
    /\ pc' = [pc EXCEPT ![p] = "fetch"]
    /\ resp' = IF p = "manual" THEN "pending" ELSE resp
    /\ UNCHANGED <<varsPrice, varsInv, varsFloor>>
    /\ UNCHANGED <<users, botToken, records, notifications, processedTransactions,
                   txs, ti, mi, sender, nftInfo, added, cleared, skipped>>

\* getTransactions completes (lines 302-309): the request throws, the reply
\* has no result, or the loop over the transactions starts
FetchDone(p) ==
    /\ pc[p] = "fetch"
    /\ \E reply \in {"throw", "noresult", "result"} :
       \E result \in FetchLists :
          LET list == IF reply = "result" THEN result ELSE <<>>
              pos == NextTx(list, 1, processedTransactions)
          IN  /\ reply # "result" => result = <<>>
              /\ MoveTo(p, list, pos)
              /\ skipped' = skipped \cup
                     SkippedIn(list, 1, LastVisited(list, pos), processedTransactions)
    /\ UNCHANGED <<varsPrice, varsInv, varsFloor>>
    /\ UNCHANGED <<users, botToken, records, notifications, processedTransactions,
                   scans, cleared>>

\* variant: the hash is added only when the record was stored
HandledUnlessUncredited(p) ==
    LET h == CurTx(p).hash
        processed == IF added[p].ok THEN processedTransactions \cup {h}
                     ELSE processedTransactions
        pos == Continue(txs[p], ti[p], mi[p], processed)
    IN  /\ processedTransactions' = processed
        /\ MoveTo(p, txs[p], pos)
        /\ skipped' = skipped \cup
               SkippedIn(txs[p], ti[p] + 1, LastVisited(txs[p], pos), processed)

\* line 245 and what follows it without waiting: the hash is added, the for
\* loop goes on, then the loop of checkRecentTransactions
Handled(p) ==
    LET h == CurTx(p).hash
        processed == processedTransactions \cup {h}
        pos == Continue(txs[p], ti[p], mi[p], processed)
    IN  /\ processedTransactions' = processed
        /\ MoveTo(p, txs[p], pos)
        /\ skipped' = skipped \cup
               SkippedIn(txs[p], ti[p] + 1, LastVisited(txs[p], pos), processed)

\* findUserByWallet completes (lines 230-234): without a sender the message
\* is done; with one, getNFTInfo is called and awaited
LookupDone(p) ==
    /\ pc[p] = "lookup"
    /\ \E queryOk \in BOOLEAN :
          LET s == findUserByWallet(users, CurMsg(p).source, queryOk)
          IN  IF s = NoUser
              THEN Handled(p)
              ELSE /\ sender' = [sender EXCEPT ![p] = s]
                   /\ pc' = [pc EXCEPT ![p] = "info"]
                   /\ UNCHANGED <<processedTransactions, txs, ti, mi, nftInfo,
                                  added, resp, skipped>>
    /\ UNCHANGED <<varsPrice, varsInv, varsFloor>>
    /\ UNCHANGED <<users, botToken, records, notifications, scans, cleared>>

\* the replies getNFTPrice can get while a scan runs
ScanGetgems == {Reply("data", Num(3))}
ScanTonnel == {Reply("data", Num(5))}

\* getNFTInfo completes (lines 63-119, 236-238): null when Address.parse or
\* getNftData fails or there is no result; otherwise the info, with the price
\* of getNFTPrice, and addNFTToInventory is called and awaited. The requests
\* inside getNFTInfo touch no shared state and are one step here.
InfoDone(p) ==
    /\ pc[p] = "info"
    /\ \/ Handled(p)
       \/ \E g \in ScanGetgems, t \in ScanTonnel :
            /\ nftInfo' = [nftInfo EXCEPT ![p] =
                   [ok |-> TRUE, id |-> CurMsg(p).source,
                    priceTON |-> getNFTPrice(g, t)]]
            /\ pc' = [pc EXCEPT ![p] = "write"]
            /\ UNCHANGED <<processedTransactions, txs, ti, mi, sender, added,
                           resp, skipped>>
    /\ UNCHANGED <<varsPrice, varsInv, varsFloor>>
    /\ UNCHANGED <<users, botToken, records, notifications, scans, cleared>>

\* the object addNFTToInventory stores (lines 187-193); tx is history:
\* the transaction it was written for
NewRecord(p, nftId) ==
    [user |-> sender[p], id |-> nftId, nft |-> nftInfo[p].id,
     priceTON |-> nftInfo[p].priceTON, staked |-> FALSE, gameId |-> Null,
     tx |-> CurTx(p).hash]

\* the set() of addNFTToInventory completes or throws (lines 180-201); its
\* result is not looked at (line 238) and sendNotification is called
WriteDone(p) ==
    /\ pc[p] = "write"
    /\ \E ok \in BOOLEAN :
          LET nftId == Cardinality(records) + 1
          IN  /\ records' = IF ok THEN records \cup {NewRecord(p, nftId)} ELSE records
              /\ added' = [added EXCEPT ![p] =
                     IF ok THEN [ok |-> TRUE, nftId |-> nftId] ELSE NotAdded]
    /\ pc' = [pc EXCEPT ![p] = "notify"]
    /\ UNCHANGED <<varsPrice, varsInv, varsFloor>>
    /\ UNCHANGED <<users, botToken, notifications, processedTransactions, txs, ti,
                   mi, sender, nftInfo, resp, scans, cleared, skipped>>

\* variant: sendNotification without its try/catch, the error ends the scan
NotifyDonePropagates(p) ==
    /\ pc[p] = "notify"
    /\ \/ /\ botToken
          /\ notifications' = [notifications EXCEPT
                 ![<<sender[p], CurTx(p).hash>>] = @ + 1]
          /\ Handled(p)
       \/ /\ notifications' = notifications
          /\ MoveTo(p, <<>>, [ti |-> 0, mi |-> 0])
          /\ UNCHANGED <<processedTransactions, skipped>>
    /\ UNCHANGED <<varsPrice, varsInv, varsFloor>>
    /\ UNCHANGED <<users, botToken, records, scans, cleared>>

\* sendNotification returns (lines 259-280): without a token nothing was sent;
\* otherwise the message was accepted, or the request threw and was logged.
\* Without a token the await of line 241 resumes at once; it is a step of its
\* own here, which adds no behaviour that a failed request does not have.
NotifyDone(p) ==
    /\ pc[p] = "notify"
    /\ \/ /\ botToken
          /\ notifications' = [notifications EXCEPT
                 ![<<sender[p], CurTx(p).hash>>] = @ + 1]
       \/ notifications' = notifications
    /\ Handled(p)
    /\ UNCHANGED <<varsPrice, varsInv, varsFloor>>
    /\ UNCHANGED <<users, botToken, records, scans, cleared>>

\* variant: the cron job evicts one hash instead of clearing the set
CronClearOldest ==
    /\ processedTransactions # {}
    /\ \E h \in processedTransactions :
           processedTransactions' = processedTransactions \ {h}
    /\ cleared' = TRUE
    /\ UNCHANGED <<varsPrice, varsInv, varsFloor>>
    /\ UNCHANGED <<users, botToken, records, notifications, pc, txs, ti, mi,
                   sender, nftInfo, added, resp, scans, skipped>>

\* the daily cron job (lines 368-372)
CronClear ==
    /\ processedTransactions' = {}
    /\ cleared' = TRUE
    /\ UNCHANGED <<varsPrice, varsInv, varsFloor>>
    /\ UNCHANGED <<users, botToken, records, notifications, pc, txs, ti, mi,
                   sender, nftInfo, added, resp, scans, skipped>>

Next ==
    \/ \E p \in Procs : StartScan(p)
    \/ \E p \in Procs : FetchDone(p)
    \/ \E p \in Procs : LookupDone(p)
    \/ \E p \in Procs : InfoDone(p)
    \/ \E p \in Procs : WriteDone(p)
    \/ \E p \in Procs : NotifyDone(p)
    \/ CronClear

Spec == Init /\ [][Next]_vars

\* ---------------------------------------------------------------------------
\* Properties of the scanner
\* ---------------------------------------------------------------------------
\* a transaction with an outbound message to RECEIVER_ADDRESS whose body is a
\* string containing the opcode
HasTransferMsg(tx) ==
    /\ tx.has_out
    /\ \E i \in 1..Len(tx.out_msgs) :
          /\ tx.out_msgs[i].destination = RECEIVER_ADDRESS
          /\ tx.out_msgs[i].body.kind = "string"
          /\ Includes(tx.out_msgs[i].body.chars, Opcode)

RecordsOf(h) == {r \in records : r.tx = h}
NotifiedOf(h) == {u \in Users : notifications[<<u, h>>] > 0}

\* in this step the scan of p starts to handle a transaction (its
\* checkTransaction gets past line 212 and awaits the user lookup)
Enters(p) == pc'[p] = "lookup" /\ ti'[p] # ti[p]

\* in this step the scan of p is done with the message it was handling
Completes(p) ==
    /\ pc[p] \in {"lookup", "info", "notify"}
    /\ pc'[p] \in {"lookup", "idle"}
    /\ <<pc[p], ti[p], mi[p]>> # <<pc'[p], ti'[p], mi'[p]>>

\* C1. Dedup skip: no scan, timer or manual, ever gets past the check of line
\* 210 with a transaction whose hash is in processedTransactions: such a call
\* looks up no user, fetches no NFT info, writes nothing and notifies nobody.
C1_DedupSkip ==
    [][\A p \in Procs :
          Enters(p) => txs'[p][ti'[p]].hash \notin processedTransactions]_vars

\* a scan returned early on a hash that another scan had put in the cache, and
\* that record is still the only one of the transaction
C1_Witness ==
    /\ ~cleared
    /\ \E h \in skipped :
          /\ h \in processedTransactions
          /\ Cardinality(RecordsOf(h)) = 1
    /\ \E p \in Procs : pc[p] = "idle" /\ resp = "200"

\* C2 as stated: whenever a scan is done with a transfer whose sender was found
\* and whose NFT info was obtained, a new record (staked = false, gameId =
\* null) is under that user and under no other, and the hash is in
\* processedTransactions.
Credited(p) ==
    \E r \in records' :
       /\ r.id = added[p].nftId
       /\ r.tx = CurTx(p).hash
       /\ r.user = sender[p]
       /\ users[r.user] = CurMsg(p).source
       /\ r.staked = FALSE /\ r.gameId = Null
       /\ \A r2 \in records' : r2.id = r.id => r2.user = r.user

C3_NoCreditWithoutMatch ==
    /\ \A r \in records : HasTransferMsg(TxOf(r.tx))
    /\ \A h \in processedTransactions : HasTransferMsg(TxOf(h))
    /\ \A k \in DOMAIN notifications :
          notifications[k] > 0 => HasTransferMsg(TxOf(k[2]))
    /\ \A p \in Procs : pc[p] \in {"lookup", "info", "write", "notify"}
                           => HasTransferMsg(CurTx(p))

\* a scan went past a transaction without a matching message (the opcode to
\* another address, a body one character short) and nothing was written for it
C3_Witness ==
    \E p \in Procs :
       /\ pc[p] = "lookup" /\ ti[p] = 2
       /\ txs[p][1].hash = "h1"
       /\ RecordsOf("h1") = {} /\ "h1" \notin processedTransactions

\* C4. Daily clear: a step that removes a hash from processedTransactions
\* empties it and changes nothing else, and the cron job empties it.
C4_DailyClear ==
    [][/\ ~(processedTransactions \subseteq processedTransactions')
            => /\ processedTransactions' = {}
               /\ cleared'
               /\ UNCHANGED <<users, botToken, records, notifications, pc, txs,
                              ti, mi, sender, nftInfo, added, resp, scans>>
       /\ (cleared' /\ ~cleared) => processedTransactions' = {}]_vars

\* the cache was cleared after a transfer had been credited, while a scan runs
C4_Witness ==
    /\ cleared
    /\ processedTransactions = {}
    /\ records # {}
    /\ \E p \in Procs : pc[p] = "notify"

\* C5. Best-effort notification: when the scan of p leaves sendNotification
\* and no notification was sent, the records are as they were (the one just
\* written included), the hash is added, the scan goes on with the rest of
\* what it fetched, and POST /api/check never answers 500.
C5_BestEffortNotification ==
    [][\A p \in Procs :
          (pc[p] = "notify" /\ pc'[p] # "notify" /\ notifications' = notifications)
             => /\ records' = records
                /\ added[p].ok => \E r \in records' : r.id = added[p].nftId
                /\ CurTx(p).hash \in processedTransactions'
                /\ LET pos == Continue(txs[p], ti[p], mi[p], processedTransactions')
                   IN  ti'[p] = pos.ti /\ mi'[p] = pos.mi
                /\ resp' # "500"]_vars

\* with a token set, a record is stored and its hash marked, nobody was
\* notified, and the scan went on to a later transaction
C5_Witness ==
    /\ botToken
    /\ \E r \in records :
          /\ r.tx \in processedTransactions
          /\ \A u \in Users : notifications[<<u, r.tx>>] = 0
          /\ \E p \in Procs : pc[p] = "lookup" /\ ti[p] = 2 /\ txs[p][1].hash = r.tx

\* C7 as stated: between two cache clears at most one record is written and
\* at most one notification sent for a transaction hash.
C7_AtMostOneCredit ==
    ~cleared =>
        \A h \in Hashes :
           /\ Cardinality(RecordsOf(h)) <= 1
           /\ \A u \in Users : notifications[<<u, h>>] <= 1

\* C8. Marked processed regardless of outcome: whenever a scan is done with a
\* matching message (no sender, no NFT info, write failed or not) the hash is
\* in processedTransactions; and no scan starts to handle a transaction whose
\* hash is in processedTransactions.
C8_MarkedRegardless ==
    [][\A p \in Procs :
          /\ Completes(p) => CurTx(p).hash \in processedTransactions'
          /\ Enters(p) => \A h \in processedTransactions : txs'[p][ti'[p]].hash # h]_vars

\* a transfer that was not credited is in the cache and a later scan skipped it
C8_Witness ==
    /\ ~cleared
    /\ \E h \in skipped :
          h \in processedTransactions /\ RecordsOf(h) = {} /\ NotifiedOf(h) = {}

\* ---------------------------------------------------------------------------
\* getNFTPrice as a call of its own (src/index.js:125-148)
\* ---------------------------------------------------------------------------
MaxPrice == 4

\* what Getgems answers to GET /v1/nft/<address>/price: the request throws
\* (network error, status outside 2xx), an empty payload, a payload with or
\* without a price
GetgemsReplies ==
    {Reply("throw", Undef), Reply("empty", Undef), Reply("data", Undef)}
        \cup {Reply("data", Num(n)) : n \in 0..MaxPrice}

\* what Tonnel answers to getGifts: the request throws, no first result, a
\* first result with or without a price
TonnelReplies ==
    {Reply("throw", Undef), Reply("empty", Undef), Reply("data", Undef)}
        \cup {Reply("data", Num(n)) : n \in 0..MaxPrice}

\* line 129 is false and line 134 is reached
AsksTonnel(g) == g.kind # "throw" /\ ~(g.kind = "data" /\ Truthy(g.price))

InitPriceCall ==
    /\ gg \in GetgemsReplies
    /\ tn \in TonnelReplies
    /\ price = Undef
    /\ ppc = "idle"

InitP ==
    /\ InitPriceCall
    /\ InitInv
    /\ InitFloor
    /\ users \in UserConfigs
    /\ botToken = FALSE
    /\ ScanIdle

\* getNFTPrice is called and awaits Getgems (line 128)
PriceCall ==
    /\ ppc = "idle"
    /\ ppc' = "getgems"
    /\ UNCHANGED <<gg, tn, price, varsScan, varsInv, varsFloor>>

\* Getgems answers (lines 129-137, 144-147)
GetgemsDone ==
    /\ ppc = "getgems"
    /\ IF AsksTonnel(gg)
       THEN ppc' = "tonnel" /\ price' = price
       ELSE ppc' = "done" /\ price' = getNFTPrice(gg, tn)
    /\ UNCHANGED <<gg, tn, varsScan, varsInv, varsFloor>>

\* Tonnel answers (lines 139-147)
TonnelDone ==
    /\ ppc = "tonnel"
    /\ ppc' = "done"
    /\ price' = getNFTPrice(gg, tn)
    /\ UNCHANGED <<gg, tn, varsScan, varsInv, varsFloor>>

NextP == PriceCall \/ GetgemsDone \/ TonnelDone

SpecPrice == InitP /\ [][NextP]_vars

\* C6 as stated. Price fallback: the Getgems price when Getgems yields one;
\* whenever Getgems does not, the price of the first Tonnel result; 0 only
\* when neither source yields a price.
GetgemsYields == gg.kind = "data" /\ Truthy(gg.price)
TonnelYields == tn.kind = "data" /\ Truthy(tn.price)

C6_PriceFallback ==
    ppc = "done" =>
        /\ GetgemsYields => price = gg.price
        /\ (~GetgemsYields /\ tn.kind = "data") => price = tn.price
        /\ price = Num(0) => (~GetgemsYields /\ ~TonnelYields)

\* ---------------------------------------------------------------------------
\* Inventory endpoints (src/unnamed/part_000)
\* ---------------------------------------------------------------------------
MaxNfts == 2        \* ids the add endpoint can generate
MaxClock == 2       \* values of Date.now()

NftIds == 1..MaxNfts

\* JSON values of a request body or of a stored object
JUndef == [t |-> "undefined", s |-> "", n |-> 0, b |-> FALSE]
JNull == [t |-> "null", s |-> "", n |-> 0, b |-> FALSE]
JStr(x) == [t |-> "string", s |-> x, n |-> 0, b |-> FALSE]
JNum(x) == [t |-> "number", s |-> "", n |-> x, b |-> FALSE]
JBool(x) == [t |-> "boolean", s |-> "", n |-> 0, b |-> x]

JTruthy(v) ==
    CASE v.t = "boolean" -> v.b
      [] v.t = "number" -> v.n # 0
      [] v.t = "string" -> v.s # ""
      [] OTHER -> FALSE

\* x || fallback
OrElse(x, fallback) == IF JTruthy(x) THEN x ELSE fallback

InvUsers == {"u1"}                      \* the :userId / userId of the requests
AdminKeys == {Undefined, "k1"}          \* process.env.ADMIN_KEY unset or set
HeaderKeys == {Undefined, "k1", "k2"}   \* the x-admin-key header
Colors == {JUndef, JNull, JStr("red")}
StakeValues == {JUndef, JBool(TRUE), JBool(FALSE)}
Names == {JUndef, JStr("Toy Bear")}
Prices == {JUndef, JNum(7)}

\* the object of lines 101-109
AddedNft(nftId, name, collection, image, priceTON, now) ==
    [k \in {"id", "name", "collection", "image", "priceTON", "staked", "receivedAt"} |->
        CASE k = "id" -> JNum(nftId)
          [] k = "name" -> OrElse(name, JStr("Unknown NFT"))
          [] k = "collection" -> OrElse(collection, JStr("Unknown"))
          [] k = "image" -> OrElse(image, JStr("art"))
          [] k = "priceTON" -> OrElse(priceTON, JNum(0))
          [] k = "staked" -> JBool(FALSE)
          [] k = "receivedAt" -> JNum(now)]

\* the argument of update() (lines 126-130)
StakeUpdate(stake, color, now) ==
    [k \in {"staked", "betColor", "stakedAt"} |->
        CASE k = "staked" -> stake
          [] k = "betColor" -> (IF JTruthy(stake) THEN color ELSE JNull)
          [] k = "stakedAt" -> (IF JTruthy(stake) THEN JNum(now) ELSE JNull)]

\* update() rejects an argument with an undefined value before it sends anything
HasUndefined(upd) == \E k \in DOMAIN upd : upd[k] = JUndef

\* Firebase update on an object: a null value removes the key, another value
\* replaces it, the other keys stay
FbUpdate(obj, upd) ==
    LET gone == {k \in DOMAIN upd : upd[k] = JNull}
        keys == (DOMAIN obj \cup DOMAIN upd) \ gone
    IN  [k \in keys |-> IF k \in DOMAIN upd THEN upd[k] ELSE obj[k]]

NoObject == [k \in {} |-> JNull]
ObjectAt(path) == IF path \in DOMAIN nfts THEN nfts[path] ELSE NoObject

Put(path, obj) == [q \in DOMAIN nfts \cup {path} |-> IF q = path THEN obj ELSE nfts[q]]

InitI ==
    /\ InitPrice
    /\ InitFloor
    /\ adminKey \in AdminKeys
    /\ nfts = [q \in {} |-> NoObject]
    /\ clock = 1
    /\ status = "none"
    /\ lastReq = NoReq
    /\ users \in UserConfigs
    /\ botToken = FALSE
    /\ ScanIdle

\* time passes
Tick ==
    /\ clock < MaxClock
    /\ clock' = clock + 1
    /\ UNCHANGED <<adminKey, nfts, status, lastReq, varsScan, varsPrice, varsFloor>>

\* POST /api/user/:userId/nfts/add (lines 87-117)
AddNft(userId, key, name, priceTON, dbOk) ==
    /\ lastReq' = [op |-> "add", key |-> key]
    /\ IF key # adminKey
       THEN status' = "403" /\ nfts' = nfts
       ELSE \E nftId \in NftIds :
               /\ \A u \in InvUsers : <<u, nftId>> \notin DOMAIN nfts
               /\ \A j \in NftIds : j < nftId => \E u \in InvUsers : <<u, j>> \in DOMAIN nfts
               /\ IF dbOk
                  THEN /\ nfts' = Put(<<userId, nftId>>,
                                      AddedNft(nftId, name, JUndef, JUndef,
                                               priceTON, clock))
                       /\ status' = "200"
                  ELSE nfts' = nfts /\ status' = "500"
    /\ UNCHANGED <<adminKey, clock, varsScan, varsPrice, varsFloor>>

\* POST /api/nft/:nftId/stake (lines 120-137)
StakeNft(nftId, userId, color, stake, dbOk) ==
    /\ lastReq' = [op |-> "stake", key |-> Undefined]
    /\ LET upd == StakeUpdate(stake, color, clock)
           path == <<userId, nftId>>
       IN  IF HasUndefined(upd) \/ ~dbOk
           THEN nfts' = nfts /\ status' = "500"
           ELSE /\ nfts' = Put(path, FbUpdate(ObjectAt(path), upd))
                /\ status' = "200"
    /\ UNCHANGED <<adminKey, clock, varsScan, varsPrice, varsFloor>>

NextI ==
    \/ Tick
    \/ \E userId \in InvUsers, key \in HeaderKeys, name \in Names, priceTON \in Prices,
          dbOk \in BOOLEAN : AddNft(userId, key, name, priceTON, dbOk)
    \/ \E nftId \in NftIds, userId \in InvUsers, color \in Colors, stake \in StakeValues,
          dbOk \in BOOLEAN : StakeNft(nftId, userId, color, stake, dbOk)

SpecInv == InitI /\ [][NextI]_vars

\* C9 as stated. Admin-key gate: an add request whose x-admin-key header is
\* missing or differs from the configured ADMIN_KEY is answered 403 and stores
\* nothing; only a request carrying the configured key stores a record.
C9_AdminGate ==
    /\ (lastReq.op = "add" /\ (lastReq.key = Undefined \/ lastReq.key # adminKey))
          => status = "403"
    /\ (lastReq.op = "add" /\ status = "200")
          => (lastReq.key # Undefined /\ lastReq.key = adminKey)

\* C10 as stated. Stake consistency: in every stored NFT, betColor and
\* stakedAt are present exactly when staked is true.
IsStaked(obj) == "staked" \in DOMAIN obj /\ obj["staked"] = JBool(TRUE)

C10_StakeConsistency ==
    \A path \in DOMAIN nfts :
       /\ IsStaked(nfts[path]) <=> "betColor" \in DOMAIN nfts[path]
       /\ IsStaked(nfts[path]) <=> "stakedAt" \in DOMAIN nfts[path]

\* ---------------------------------------------------------------------------
\* GET /api/collections/prices (src/unnamed/part_000:169-197)
\* ---------------------------------------------------------------------------
MaxGifts == 2         \* gifts in one reply of getGifts (the code asks for 30)
MaxGiftPrice == 1     \* prices are 0..MaxGiftPrice

Collections == <<"toy bear", "durov cap", "heart locket", "plush pepe", "swiss watch">>
Models == {"m1", "m2"}
Gifts == [model : Models, price : 0..MaxGiftPrice]

\* the lists getGifts can return, in any order
GiftLists == UNION {[1..n -> Gifts] : n \in 0..MaxGifts}

\* const floorPrices = {}
NoFloor == [m \in {} |-> 0]

\* the callback of forEach (lines 183-187): !floorPrices[gift.model] is true
\* for a model not seen yet and for a floor of 0
FloorStep(fp, gift) ==
    IF \/ gift.model \notin DOMAIN fp
       \/ fp[gift.model] = 0
       \/ gift.price < fp[gift.model]
    THEN [m \in DOMAIN fp \cup {gift.model} |->
             IF m = gift.model THEN gift.price ELSE fp[m]]
    ELSE fp

\* response.data.forEach from gift i on
RECURSIVE FloorFold(_, _, _)
FloorFold(fp, list, i) ==
    IF i > Len(list) THEN fp
    ELSE FloorFold(FloorStep(fp, list[i]), list, i + 1)

\* lines 182-187
floorPricesOf(list) == FloorFold(NoFloor, list, 1)

InitF ==
    /\ fpc = "idle"
    /\ ci = 0
    /\ prices = [c \in {} |-> NoFloor]
    /\ lastGifts = [collection |-> "", gifts |-> <<>>]
    /\ fstatus = "none"
    /\ InitPrice
    /\ InitInv
    /\ users \in UserConfigs
    /\ botToken = FALSE
    /\ ScanIdle

\* the request arrives: const prices = {}, the first getGifts is sent (170-179)
PricesCall ==
    /\ fpc = "idle"
    /\ fpc' = "ask"
    /\ ci' = 1
    /\ prices' = [c \in {} |-> NoFloor]
    /\ UNCHANGED <<lastGifts, fstatus, varsScan, varsPrice, varsInv>>

\* after the reply for collection ci: the next getGifts, or res.json(prices)
NextCollection ==
    IF ci = Len(Collections)
    THEN fpc' = "done" /\ fstatus' = "200" /\ ci' = ci
    ELSE fpc' = "ask" /\ fstatus' = fstatus /\ ci' = ci + 1

\* getGifts throws: the catch of line 193 answers 500
GiftsThrow ==
    /\ fpc = "ask"
    /\ fpc' = "done"
    /\ fstatus' = "500"
    /\ UNCHANGED <<ci, prices, lastGifts, varsScan, varsPrice, varsInv>>

\* getGifts answers without data (line 181 is false)
GiftsNoData ==
    /\ fpc = "ask"
    /\ NextCollection
    /\ UNCHANGED <<prices, lastGifts, varsScan, varsPrice, varsInv>>

\* getGifts answers with a list (lines 181-189)
GiftsData ==
    /\ fpc = "ask"
    /\ \E list \in GiftLists :
          LET c == Collections[ci]
          IN  /\ prices' = [k \in DOMAIN prices \cup {c} |->
                               IF k = c THEN floorPricesOf(list) ELSE prices[k]]
              /\ lastGifts' = [collection |-> c, gifts |-> list]
    /\ NextCollection
    /\ UNCHANGED <<varsScan, varsPrice, varsInv>>

NextF == PricesCall \/ GiftsThrow \/ GiftsNoData \/ GiftsData

SpecFloor == InitF /\ [][NextF]_vars

\* C11 as stated. Floor prices: for a collection and a model occurring in the
\* gifts returned for it, the response reports the minimum price among the
\* returned gifts of that model.
PricesOfModel(list, m) == {list[i].price : i \in {j \in 1..Len(list) : list[j].model = m}}
MinOf(S) == CHOOSE x \in S : \A y \in S : x <= y

C11_FloorPrices ==
    (fpc = "done" /\ fstatus = "200" /\ lastGifts.collection \in DOMAIN prices) =>
        \A m \in Models :
           PricesOfModel(lastGifts.gifts, m) # {} =>
              /\ m \in DOMAIN prices[lastGifts.collection]
              /\ prices[lastGifts.collection][m] = MinOf(PricesOfModel(lastGifts.gifts, m))

====
